---- MODULE Spec2Model ----
(***************************************************************************)
(* Innkeeper desktop shell (Electron main process).                        *)
(*                                                                         *)
(* The model follows the packaged main process: first-run seeding, the     *)
(* did-finish-load preload of persisted files, and the 'to-python' IPC     *)
(* handler with its SAVE_BUILD_STRING interception.                        *)
(*                                                                         *)
(* Strings are sequences of one-character strings, so that split, join,    *)
(* startsWith, endsWith, replace and lastIndexOf are computed as the       *)
(* JavaScript built-ins compute them.  JSON values are tagged records;     *)
(* an object is a function from its own keys to values.  The order of an   *)
(* object's keys (which JSON.parse and JSON.stringify both preserve) is    *)
(* not represented.                                                        *)
(***************************************************************************)
EXTENDS Integers, Sequences, FiniteSets, TLC

VARIABLES
    isPackaged,        \* app.isPackaged
    platform,          \* process.platform
    now,               \* Date.now() in milliseconds
    files,             \* the three talent_builds.json files, by path
    treeCacheDir,      \* getDataDir()/talent_tree_cache
    housingFile,       \* assets/housing_decorations.json
    catalogFile,       \* getDataDir()/housing_decor_cache/decor_catalog.json
    pc,                \* the main process: "launch", "createWindow", "idle", "quit"
    step,              \* the statement of createWindow to run next
    win,               \* the BrowserWindow: "none", "open" or "closed"
    loadPending,       \* the did-finish-load callback is registered and has not run
    updatePending,     \* the request of checkForUpdates is in flight
    pyProcess,         \* the engine process: "none" or "spawned"
    buffer,            \* startPython's buffer of unterminated engine output
    ready,             \* startPython's ready flag
    received,          \* the engine's output that the stdout handler was given
    opened,            \* the URLs handed to shell.openExternal, in order
    housingCacheStale, \* the flag of that name
    objectPrototype,   \* properties added to Object.prototype in this process
    stringPrototype,   \* properties added to String.prototype in this process
    engineStdin,       \* lines written to pyProcess.stdin, in order
    events,            \* messages sent to the renderer on 'from-python', in order
    seedReturned,      \* seedDataFiles() has returned in this process
    last,              \* what the handler that ran last did
    budget,            \* inputs (commands, engine output) that may still arrive
    runs,              \* application starts so far
    concentration,     \* the engine's ConcentrationState of each profession
    activity,          \* the engine's recorded weekly activity, API and manual
    vault              \* the engine's last VaultForecast

envVars  == <<isPackaged, platform, now, opened>>
diskVars == <<treeCacheDir, housingFile, catalogFile>>
procVars == <<pc, step, win, loadPending, updatePending, pyProcess, seedReturned,
              runs>>
pipeVars == <<buffer, ready, received>>
heapVars == <<objectPrototype, stringPrototype>>
engineVars == <<concentration, activity, vault>>

vars == <<isPackaged, platform, now, opened, files, treeCacheDir, housingFile,
          catalogFile, pc, step, win, loadPending, updatePending, pyProcess,
          buffer, ready, received, housingCacheStale, objectPrototype,
          stringPrototype,
          engineStdin, events, seedReturned, last, budget, runs,
          concentration, activity, vault>>

-----------------------------------------------------------------------------
(* Bounds of the model. *)

\* inputs (renderer commands, engine output chunks) in one behaviour
MaxInputs == 2
\* characters after the third separator of a generated SAVE_BUILD_STRING line
MaxTail == 5
\* application starts in one behaviour
MaxRuns == 2
\* pieces ("a", "_", ".json") a generated cache file name is made of
MaxPieces == 6
\* the characters of the engine's output in one behaviour of the framing
MaxStream == 6
\* the greatest resource value and cap of a profession
MaxResource == 3
\* the completions of a fetched snapshot
MaxCompletions == 2

-----------------------------------------------------------------------------
(* Strings *)

SavePrefix ==
    <<"S","A","V","E","_","B","U","I","L","D","_","S","T","R","I","N","G",":">>

GetCharacters == <<"G","E","T">>

ProtoKey == <<"_","_","p","r","o","t","o","_","_">>

\* String.prototype.startsWith
StartsWith(s, p) == Len(s) >= Len(p) /\ SubSeq(s, 1, Len(p)) = p

\* String.prototype.split with a one-character separator
\* String.prototype.indexOf from position i, Len(s) + 1 standing for -1
RECURSIVE IndexFrom(_, _, _)
IndexFrom(s, sep, i) ==
    IF i > Len(s) \/ s[i] = sep THEN i ELSE IndexFrom(s, sep, i + 1)

RECURSIVE SplitFrom(_, _, _)
SplitFrom(s, sep, i) ==
    LET j == IndexFrom(s, sep, i) IN
    IF j > Len(s) THEN <<SubSeq(s, i, Len(s))>>
    ELSE <<SubSeq(s, i, j - 1)>> \o SplitFrom(s, sep, j + 1)

Split(s, sep) == SplitFrom(s, sep, 1)

\* Array.prototype.join
RECURSIVE Join(_, _)
Join(parts, sep) ==
    IF parts = <<>> THEN <<>>
    ELSE IF Len(parts) = 1 THEN parts[1]
    ELSE parts[1] \o <<sep>> \o Join(Tail(parts), sep)

-----------------------------------------------------------------------------
(* JavaScript values *)

Undefined == [kind |-> "undefined"]
JsNull    == [kind |-> "null"]
Str(s)    == [kind |-> "string", str |-> s]
Obj(p)    == [kind |-> "object", props |-> p]
NoProps   == <<>>
EmptyObj  == Obj(NoProps)

\* ToBoolean, for the values of the model
Truthy(v) == v.kind = "object" \/ (v.kind = "string" /\ v.str # <<>>)

RECURSIVE At(_, _)
At(v, path) == IF path = <<>> THEN v ELSE At(v.props[Head(path)], Tail(path))

RECURSIVE Put(_, _, _)
Put(v, path, val) ==
    IF path = <<>> THEN val
    ELSE IF Len(path) = 1 THEN Obj((Head(path) :> val) @@ v.props)
    ELSE Obj((Head(path) :> Put(v.props[Head(path)], Tail(path), val)) @@ v.props)

(* The objects a handler can reach: its local `builds` (root "b"),          *)
(* Object.prototype (root "op") and String.prototype (root "sp").  A        *)
(* reference names a root and a path of own keys below it; the roots        *)
(* "undefined" and "null" stand for those two values.  Of the built-in      *)
(* properties of the two prototypes only __proto__ is represented.          *)
Ref(root, path) == [root |-> root, path |-> path]
UndefRef == Ref("undefined", <<>>)
NullRef  == Ref("null", <<>>)
BuildsRef == Ref("b", <<>>)
ObjProtoRef == Ref("op", <<>>)
StrProtoRef == Ref("sp", <<>>)

Deref(h, ref) ==
    IF ref.root = "undefined" THEN Undefined
    ELSE IF ref.root = "null" THEN JsNull
    ELSE At(h[ref.root], ref.path)

Nullish(v) == v.kind \in {"undefined", "null"}

\* [[Get]]: the reference `x[k]` evaluates to, x being a non-nullish value
Lookup(h, ref, k) ==
    LET x == Deref(h, ref) IN
    IF x.kind = "object" THEN
        IF k \in DOMAIN x.props THEN Ref(ref.root, Append(ref.path, k))
        ELSE IF k = ProtoKey
             THEN (IF ref = ObjProtoRef THEN NullRef ELSE ObjProtoRef)
        ELSE IF ref # ObjProtoRef /\ k \in DOMAIN h.op.props
             THEN Ref("op", <<k>>)
        ELSE UndefRef
    ELSE \* a string primitive
        IF k = ProtoKey THEN StrProtoRef
        ELSE IF k \in DOMAIN h.sp.props THEN Ref("sp", <<k>>)
        ELSE IF k \in DOMAIN h.op.props THEN Ref("op", <<k>>)
        ELSE UndefRef

Result(threw, h) == [threw |-> threw, heap |-> h]

\* [[Set]] in sloppy mode: `x[k] = val`, x being the value at ref
Assign(h, ref, k, val) ==
    LET x == Deref(h, ref) IN
    IF Nullish(x) THEN Result(TRUE, h)          \* TypeError
    ELSE IF x.kind = "string" THEN Result(FALSE, h) \* silently ignored
    ELSE IF k \in DOMAIN x.props \/ k # ProtoKey
         THEN Result(FALSE, [h EXCEPT ![ref.root] =
                                Put(@, Append(ref.path, k), val)])
    \* the __proto__ setter: ignores a primitive, and throws on
    \* Object.prototype, whose prototype is immutable
    ELSE IF val.kind = "string" THEN Result(FALSE, h)
    ELSE Result(ref = ObjProtoRef, h)

-----------------------------------------------------------------------------
(* Files *)

Absent    == [state |-> "absent"]
\* content on which JSON.parse throws
Malformed == [state |-> "malformed"]
\* fmt: "pretty2" is the text JSON.stringify(v, null, 2) produces
Json(fmt, v) == [state |-> "json", fmt |-> fmt, val |-> v]

\* a directory: whether it exists, and its files in readdir order
NoDir == [exists |-> FALSE, entries |-> <<>>]
Dir(entries) == [exists |-> TRUE, entries |-> entries]

DayMs == 24 * 3600 * 1000
\* the clock when a behaviour starts
StartTime == 10 * DayMs

UserDataBuilds  == "userData/talent_builds.json"
AssetsBuilds    == "assets/talent_builds.json"
ResourcesBuilds == "resources/talent_builds.json"

getBuildsFile == IF isPackaged THEN UserDataBuilds ELSE AssetsBuilds

-----------------------------------------------------------------------------
(* ipcMain.on('to-python') *)

\* the entry is appended to (+=) instead of replaced
SetBuildStringAppend(h0, classSlug, specSlug, buildType, buildString) ==
    LET r1 == Lookup(h0, BuildsRef, classSlug)
        a1 == IF Truthy(Deref(h0, r1)) THEN Result(FALSE, h0)
              ELSE Assign(h0, BuildsRef, classSlug, EmptyObj)
        h1 == a1.heap
        o1 == Lookup(h1, BuildsRef, classSlug)
    IN
    IF a1.threw \/ Nullish(Deref(h1, o1)) THEN Result(TRUE, h1)
    ELSE
    LET r2 == Lookup(h1, o1, specSlug)
        a2 == IF Truthy(Deref(h1, r2)) THEN Result(FALSE, h1)
              ELSE Assign(h1, o1, specSlug, EmptyObj)
        h2 == a2.heap
        o2 == Lookup(h2, Lookup(h2, BuildsRef, classSlug), specSlug)
    IN
    IF a2.threw \/ Nullish(Deref(h2, o2)) THEN Result(TRUE, h2)
    ELSE LET old == Deref(h2, Lookup(h2, o2, buildType)) IN
         Assign(h2, o2, buildType,
                Str((IF old.kind = "string" THEN old.str ELSE <<>>)
                    \o buildString))

\* lines 264-266: the three statements on the parsed builds object
SetBuildString(h0, classSlug, specSlug, buildType, buildString) ==
    LET r1 == Lookup(h0, BuildsRef, classSlug)
        a1 == IF Truthy(Deref(h0, r1)) THEN Result(FALSE, h0)
              ELSE Assign(h0, BuildsRef, classSlug, EmptyObj)
        h1 == a1.heap
        o1 == Lookup(h1, BuildsRef, classSlug)
    IN
    IF a1.threw \/ Nullish(Deref(h1, o1)) THEN Result(TRUE, h1)
    ELSE
    LET r2 == Lookup(h1, o1, specSlug)
        a2 == IF Truthy(Deref(h1, r2)) THEN Result(FALSE, h1)
              ELSE Assign(h1, o1, specSlug, EmptyObj)
        h2 == a2.heap
    IN
    IF a2.threw THEN Result(TRUE, h2)
    ELSE Assign(h2, Lookup(h2, Lookup(h2, BuildsRef, classSlug), specSlug),
                buildType, Str(buildString))

BuildStringSaved(c, s, t) ==
    [status |-> "build_string_saved", class_slug |-> c, spec_slug |-> s,
     build_type |-> t]

IoOutcomes == {"ok", "denied", "partial"}

\* fs.writeFileSync(path, text): io is what the file system does with it
WriteFile(old, new, io) ==
    IF io = "ok" THEN new
    ELSE IF io = "denied" THEN old
    ELSE Malformed      \* the file was truncated and only partly written

NoSave == [c |-> <<>>, s |-> <<>>, t |-> <<>>, str |-> <<>>]

\* the build string is taken to be the fifth part alone
ParseSaveFifthPart(parts) ==
    [c |-> parts[2], s |-> parts[3], t |-> parts[4], str |-> parts[5]]

\* lines 256-257: the destructuring of the parts and the join of the rest
ParseSave(parts) ==
    [c |-> parts[2], s |-> parts[3], t |-> parts[4],
     str |-> Join(SubSeq(parts, 5, Len(parts)), ":")]

(* lines 260-266: the builds file is read and parsed and the entry set.     *)
(* Nothing is written yet; the two prototypes are changed in place.         *)
UpdateBuilds(file, op, sp, p) ==
    IF file.state = "malformed"
    THEN [threw |-> TRUE, builds |-> EmptyObj, op |-> op, sp |-> sp]
    ELSE LET builds == IF file.state = "json" THEN file.val ELSE EmptyObj
             h0 == [b |-> builds, op |-> Obj(op), sp |-> Obj(sp)]
             r  == SetBuildString(h0, p.c, p.s, p.t, p.str)
         IN [threw |-> r.threw, builds |-> r.heap.b,
             op |-> r.heap.op.props, sp |-> r.heap.sp.props]

\* lines 267-272: what is sent once the update went through
SavedEvents(p, io) ==
    IF io = "ok" THEN <<BuildStringSaved(p.c, p.s, p.t)>> ELSE <<>>

NoHandler ==
    [handler |-> "none", cmd |-> <<>>, kind |-> "none", io |-> "none",
     parsed |-> NoSave, before |-> Absent, threw |-> FALSE, sent |-> <<>>,
     wrote |-> <<>>, prevCmd |-> <<>>, prevIo |-> "none", trees |-> <<>>]

(* The record kept of a handler run: the command and how it was taken, the  *)
(* outcome of its file write ("none": no write was attempted), the parsed   *)
(* fields, the builds file before the run, whether the handler's try block  *)
(* threw, the events it sent and the lines it wrote to the engine, the      *)
(* command and write outcome of the run before it, and (for the preload)    *)
(* the cache files that were sent, each with its event.                     *)
Handled(cmd, kind, io, p, threw, sent, wrote) ==
    [handler |-> "to-python", cmd |-> cmd, kind |-> kind, io |-> io,
     parsed |-> p, before |-> files[getBuildsFile], threw |-> threw,
     sent |-> sent, wrote |-> wrote, prevCmd |-> last.cmd,
     prevIo |-> last.io, trees |-> <<>>]

\* lines 252-277: the interception of a build-string save
InterceptSave(cmd) ==
    LET parts == Split(cmd, ":") IN
    IF Len(parts) >= 5
    THEN LET p == ParseSave(parts)
             u == UpdateBuilds(files[getBuildsFile], objectPrototype,
                               stringPrototype, p)
         IN /\ objectPrototype' = u.op
            /\ stringPrototype' = u.sp
            /\ UNCHANGED engineStdin
            /\ IF u.threw
               THEN /\ last' = Handled(cmd, "save", "none", p, TRUE, <<>>, <<>>)
                    /\ UNCHANGED <<files, events>>
               ELSE \E io \in IoOutcomes :
                    /\ files' = [files EXCEPT ![getBuildsFile] =
                                   WriteFile(@, Json("pretty2", u.builds), io)]
                    /\ events' = events \o SavedEvents(p, io)
                    /\ last' = Handled(cmd, "save", io, p, io # "ok",
                                       SavedEvents(p, io), <<>>)
    ELSE /\ last' = Handled(cmd, "malformed", "none", NoSave, FALSE, <<>>, <<>>)
         /\ UNCHANGED <<files, objectPrototype, stringPrototype, events,
                        engineStdin>>

\* the command is written without its newline
ForwardUnterminated(cmd) ==
    LET wrote == IF pyProcess = "spawned" THEN <<cmd>> ELSE <<>>
    IN /\ engineStdin' = engineStdin \o wrote
       /\ last' = Handled(cmd, "forward", "none", NoSave, FALSE, <<>>, wrote)
       /\ UNCHANGED <<files, objectPrototype, stringPrototype, events>>

\* line 279
Forward(cmd) ==
    LET wrote == IF pyProcess = "spawned" THEN <<cmd \o <<"\n">> >> ELSE <<>>
    IN /\ engineStdin' = engineStdin \o wrote
       /\ last' = Handled(cmd, "forward", "none", NoSave, FALSE, <<>>, wrote)
       /\ UNCHANGED <<files, objectPrototype, stringPrototype, events>>

ToPython(cmd) ==
    /\ pc = "idle"
    /\ win = "open"
    /\ budget > 0
    /\ budget' = budget - 1
    /\ IF StartsWith(cmd, SavePrefix) THEN InterceptSave(cmd) ELSE Forward(cmd)
    /\ UNCHANGED <<engineVars, envVars, diskVars, procVars, pipeVars, housingCacheStale>>

-----------------------------------------------------------------------------
(* ipcMain.on('open-external'), lines 285-288 *)

\* the i flag: the letters of the pattern, each with its other case
LowerCase == ("H" :> "h") @@ ("T" :> "t") @@ ("P" :> "p") @@ ("S" :> "s")

FoldCase(ch) == IF ch \in DOMAIN LowerCase THEN LowerCase[ch] ELSE ch

\* the characters of pat match those of url from position i on, case folded
MatchesAt(url, pat, i) ==
    /\ Len(url) >= i + Len(pat) - 1
    /\ \A k \in 1..Len(pat) : FoldCase(url[i + k - 1]) = pat[k]

\* the pattern without its anchor: http:// or https:// anywhere in the text
MatchesHttpUnanchored(url) ==
    \E i \in 1..Len(url) :
        /\ MatchesAt(url, <<"h", "t", "t", "p">>, i)
        /\ \/ MatchesAt(url, <<"s">>, i + 4) /\ MatchesAt(url, <<":", "/", "/">>, i + 5)
           \/ MatchesAt(url, <<":", "/", "/">>, i + 4)

\* line 286: /^https?:\/\//i.test(url)
MatchesHttp(url) ==
    /\ MatchesAt(url, <<"h", "t", "t", "p">>, 1)
    /\ \/ MatchesAt(url, <<"s">>, 5) /\ MatchesAt(url, <<":", "/", "/">>, 6)
       \/ MatchesAt(url, <<":", "/", "/">>, 5)

OpenExternal(url) ==
    /\ pc = "idle"
    /\ win = "open"
    /\ budget > 0
    /\ budget' = budget - 1
    /\ opened' = IF MatchesHttp(url) THEN Append(opened, url) ELSE opened
    /\ last' = [NoHandler EXCEPT !.handler = "open-external", !.cmd = url]
    /\ UNCHANGED <<engineVars, isPackaged, platform, now, files, diskVars,
                   procVars, pipeVars, housingCacheStale, heapVars,
                   engineStdin, events>>

-----------------------------------------------------------------------------
(* createWindow, lines 62-177, statement by statement.  No other handler    *)
(* runs before it has returned.                                             *)

\* the engine started before the data files are seeded
EngineBeforeSeed == <<"window", "python", "seed", "listen">>

\* lines 66-87, 88, 89 and 92, in the order of the code
CreateWindowSteps == <<"window", "seed", "python", "listen">>

AtStep(name) == pc = "createWindow" /\ CreateWindowSteps[step] = name

Advance ==
    IF step = Len(CreateWindowSteps)
    THEN pc' = "idle" /\ step' = 0
    ELSE pc' = "createWindow" /\ step' = step + 1

\* line 317: app.whenReady().then(createWindow)
WhenReady ==
    /\ pc = "launch"
    /\ pc' = "createWindow"
    /\ step' = 1
    /\ UNCHANGED <<engineVars, envVars, files, diskVars, win, loadPending, updatePending,
                   pyProcess, pipeVars, housingCacheStale, heapVars,
                   engineStdin, events, seedReturned, last, budget, runs>>

\* lines 66-87: the window is created and starts loading the page
OpenWindow ==
    /\ AtStep("window")
    /\ win' = "open"
    /\ Advance
    /\ UNCHANGED <<engineVars, envVars, files, diskVars, loadPending, updatePending,
                   pyProcess, pipeVars, housingCacheStale, heapVars,
                   engineStdin, events, seedReturned, last, budget, runs>>

\* the bundled file is copied whenever it exists
SeedAlways(fs, packaged) ==
    IF packaged /\ fs[ResourcesBuilds].state # "absent"
    THEN [fs EXCEPT ![UserDataBuilds] = fs[ResourcesBuilds]]
    ELSE fs

\* lines 44-59: the files after seedDataFiles
SeedFiles(fs, packaged) ==
    IF ~packaged THEN fs
    ELSE IF fs[UserDataBuilds].state = "absent"
            /\ fs[ResourcesBuilds].state # "absent"
         THEN [fs EXCEPT ![UserDataBuilds] = fs[ResourcesBuilds]]
         ELSE fs

\* line 88
SeedDataFiles ==
    /\ AtStep("seed")
    /\ files' = SeedFiles(files, isPackaged)
    /\ seedReturned' = TRUE
    /\ last' = [NoHandler EXCEPT !.handler = "seedDataFiles",
                                 !.before = files[UserDataBuilds]]
    /\ Advance
    /\ UNCHANGED <<engineVars, envVars, diskVars, win, loadPending, updatePending,
                   pyProcess, pipeVars, housingCacheStale, heapVars,
                   engineStdin, events, budget, runs>>

\* line 89, lines 180-246: the engine is spawned and its output listened to
StartPython ==
    /\ AtStep("python")
    /\ pyProcess' = "spawned"
    /\ buffer' = <<>>
    /\ ready' = FALSE
    /\ received' = <<>>
    /\ Advance
    /\ UNCHANGED <<engineVars, envVars, files, diskVars, win, loadPending, updatePending,
                   housingCacheStale, heapVars, engineStdin, events,
                   seedReturned, last, budget, runs>>

\* line 92: the did-finish-load callback is registered
ListenLoad ==
    /\ AtStep("listen")
    /\ loadPending' = TRUE
    /\ Advance
    /\ UNCHANGED <<engineVars, envVars, files, diskVars, win, updatePending, pyProcess,
                   pipeVars, housingCacheStale, heapVars, engineStdin, events,
                   seedReturned, last, budget, runs>>

-----------------------------------------------------------------------------
(* The engine's output: pyProcess.stdout.on('data'), lines 221-242 *)

Whitespace == {" ", "\t", "\r", "\n"}

\* String.prototype.trim
RECURSIVE TrimStart(_)
TrimStart(s) ==
    IF s # <<>> /\ Head(s) \in Whitespace THEN TrimStart(Tail(s)) ELSE s

RECURSIVE TrimEnd(_)
TrimEnd(s) ==
    IF s # <<>> /\ s[Len(s)] \in Whitespace
    THEN TrimEnd(SubSeq(s, 1, Len(s) - 1)) ELSE s

Trim(s) == TrimEnd(TrimStart(s))

ReadyLine ==
    <<"{","\"","s","t","a","t","u","s","\"",":","\"","r","e","a","d","y","\"","}">>

\* line 231-232: JSON.parse(line).status === 'ready', for the engine's lines
IsReady(line) == line = ReadyLine

GetCharactersLine ==
    <<"G","E","T","_","C","H","A","R","A","C","T","E","R","S","\n">>
FetchHousingLine ==
    <<"F","E","T","C","H","_","H","O","U","S","I","N","G","_","C","A","T","A",
      "L","O","G",":","e","u","\n">>
ExitLine == <<"E","X","I","T","\n">>

EngineLine(line) == [status |-> "engine", line |-> line]

\* a send to a window that was closed goes through like any other
ProcessLineAfterClose(st, raw) ==
    LET line == Trim(raw) IN
    IF st.threw \/ line = <<>> THEN st
    ELSE LET s1 == [st EXCEPT !.sent = Append(@, EngineLine(line))]
         IN IF ~s1.ready /\ IsReady(line)
            THEN [s1 EXCEPT !.ready = TRUE,
                            !.wrote = @ \o <<GetCharactersLine>>
                                        \o (IF housingCacheStale
                                            THEN <<FetchHousingLine>>
                                            ELSE <<>>)]
            ELSE s1

\* GET_CHARACTERS is written at every ready line, the flag not being looked at
ProcessLineEveryReady(st, raw) ==
    LET line == Trim(raw) IN
    IF st.threw \/ line = <<>> THEN st
    ELSE IF win = "closed" THEN [st EXCEPT !.threw = TRUE]
    ELSE LET s1 == IF win = "open"
                   THEN [st EXCEPT !.sent = Append(@, EngineLine(line))]
                   ELSE st
         IN IF IsReady(line)
            THEN [s1 EXCEPT !.ready = TRUE,
                            !.wrote = @ \o <<GetCharactersLine>>
                                        \o (IF housingCacheStale
                                            THEN <<FetchHousingLine>>
                                            ELSE <<>>)]
            ELSE s1

(* lines 225-241: one line of the forEach.  st holds the ready flag, the    *)
(* events sent, the lines written and whether a send has thrown (a send to  *)
(* a closed window throws, which ends the forEach).                         *)
ProcessLine(st, raw) ==
    LET line == Trim(raw) IN
    IF st.threw \/ line = <<>> THEN st
    ELSE IF win = "closed" THEN [st EXCEPT !.threw = TRUE]
    ELSE LET s1 == IF win = "open"
                   THEN [st EXCEPT !.sent = Append(@, EngineLine(line))]
                   ELSE st
         IN IF ~s1.ready /\ IsReady(line)
            THEN [s1 EXCEPT !.ready = TRUE,
                            !.wrote = @ \o <<GetCharactersLine>>
                                        \o (IF housingCacheStale
                                            THEN <<FetchHousingLine>>
                                            ELSE <<>>)]
            ELSE s1

RECURSIVE ProcessLines(_, _)
ProcessLines(st, lines) ==
    IF lines = <<>> THEN st
    ELSE ProcessLines(ProcessLine(st, Head(lines)), Tail(lines))

\* each chunk is split by itself: what follows its last newline is forwarded
\* with the lines, and nothing is kept for the next chunk
StdoutDataUnbuffered(chunk) ==
    /\ pc = "idle"
    /\ pyProcess = "spawned"
    /\ budget > 0
    /\ budget' = budget - 1
    /\ LET st == ProcessLines([ready |-> ready, sent |-> <<>>, wrote |-> <<>>,
                               threw |-> FALSE],
                              Split(chunk, "\n"))
       IN /\ buffer' = <<>>
          /\ ready' = st.ready
          /\ received' = received \o chunk
          /\ events' = events \o st.sent
          /\ engineStdin' = engineStdin \o st.wrote
          /\ last' = [NoHandler EXCEPT !.handler = "stdout-data",
                                       !.cmd = chunk, !.threw = st.threw,
                                       !.sent = st.sent, !.wrote = st.wrote]
    /\ UNCHANGED <<engineVars, envVars, files, diskVars, procVars, housingCacheStale,
                   heapVars>>

\* lines 221-242: one chunk of the engine's output
StdoutData(chunk) ==
    /\ pc = "idle"
    /\ pyProcess = "spawned"
    /\ budget > 0
    /\ budget' = budget - 1
    /\ LET lines == Split(buffer \o chunk, "\n")
           st == ProcessLines([ready |-> ready, sent |-> <<>>, wrote |-> <<>>,
                               threw |-> FALSE],
                              SubSeq(lines, 1, Len(lines) - 1))
       IN /\ buffer' = lines[Len(lines)]
          /\ ready' = st.ready
          /\ received' = received \o chunk
          /\ events' = events \o st.sent
          /\ engineStdin' = engineStdin \o st.wrote
          /\ last' = [NoHandler EXCEPT !.handler = "stdout-data",
                                       !.cmd = chunk, !.threw = st.threw,
                                       !.sent = st.sent, !.wrote = st.wrote]
    /\ UNCHANGED <<engineVars, envVars, files, diskVars, procVars, housingCacheStale,
                   heapVars>>

-----------------------------------------------------------------------------
(* win.webContents.once('did-finish-load'), lines 92-176 *)

DotJson == <<".", "j", "s", "o", "n">>

\* String.prototype.endsWith
EndsWith(s, suffix) ==
    Len(s) >= Len(suffix)
    /\ SubSeq(s, Len(s) - Len(suffix) + 1, Len(s)) = suffix

\* String.prototype.substring, on JavaScript's indices (from 0, end excluded)
Substring(s, from, to) == SubSeq(s, from + 1, to)

\* String.prototype.indexOf of a pattern: JavaScript's index, -1 if none
IndexOf(s, pat) ==
    LET hits == {i \in 0..(Len(s) - Len(pat)) :
                    Substring(s, i, i + Len(pat)) = pat}
    IN IF hits = {} THEN -1 ELSE CHOOSE i \in hits : \A j \in hits : i <= j

\* String.prototype.lastIndexOf of a character: JavaScript's index, -1 if none
LastIndexOf(s, ch) ==
    LET hits == {i \in 0..(Len(s) - 1) : s[i + 1] = ch}
    IN IF hits = {} THEN -1 ELSE CHOOSE i \in hits : \A j \in hits : i >= j

\* String.prototype.replace(pat, ''): the first occurrence is removed
RemoveFirst(s, pat) ==
    LET i == IndexOf(s, pat)
    IN IF i < 0 THEN s
       ELSE Substring(s, 0, i) \o Substring(s, i + Len(pat), Len(s))

StartsWithUnderscore(key) == StartsWith(key, <<"_">>)

\* every key is copied, the documentation keys too
LoadedBuildsUnfiltered(raw) == raw

\* lines 100-102: the keys of the file that do not start with an underscore
LoadedBuilds(raw) ==
    Obj([k \in {key \in DOMAIN raw.props : ~StartsWithUnderscore(key)} |->
           raw.props[k]])

\* the builds are read only where the tree cache directory is found
BuildsEventsInCacheScan(file) ==
    IF file.state = "malformed" \/ ~treeCacheDir.exists THEN <<>>
    ELSE <<[status |-> "talent_builds_loaded",
            builds |-> IF file.state = "json" THEN LoadedBuilds(file.val)
                       ELSE EmptyObj]>>

\* lines 94-110 (step 1): the events sent
BuildsEvents(file) ==
    IF file.state = "malformed" THEN <<>>
    ELSE <<[status |-> "talent_builds_loaded",
            builds |-> IF file.state = "json" THEN LoadedBuilds(file.val)
                       ELSE EmptyObj]>>

\* a cache file: its name and its content
CacheFile(name, content) == [name |-> name, content |-> content]
\* a cached tree, with or without its two node lists
Tree(classNodes, specNodes) ==
    [state |-> "json", class_nodes |-> classNodes, spec_nodes |-> specNodes]

(* lines 119-129: the events sent for one file of the cache directory; a    *)
(* file that cannot be read or parsed throws into the catch of line 130     *)
TreeEvents(f) ==
    IF f.content.state # "json" THEN <<>>
    ELSE LET base == RemoveFirst(f.name, DotJson)
             sepIdx == LastIndexOf(base, "_")
         IN IF sepIdx > 0 /\ f.content.class_nodes /\ f.content.spec_nodes
            THEN <<[status |-> "talent_tree",
                    class_slug |-> Substring(base, 0, sepIdx),
                    spec_slug |-> Substring(base, sepIdx + 1, Len(base)),
                    tree |-> f.content]>>
            ELSE <<>>

\* the first file that cannot be read ends the scan of the directory
RECURSIVE PreloadTreesOneCatch(_)
PreloadTreesOneCatch(entries) ==
    IF entries = <<>> THEN <<>>
    ELSE LET f == Head(entries)
             sent == IF EndsWith(f.name, DotJson) THEN TreeEvents(f) ELSE <<>>
         IN IF EndsWith(f.name, DotJson) /\ f.content.state # "json"
            THEN <<>>
            ELSE (IF sent = <<>> THEN <<>>
                  ELSE <<[file |-> f.name, event |-> sent[1]]>>)
                 \o PreloadTreesOneCatch(Tail(entries))

\* lines 114-134 (step 2): the files sent, each with its event
RECURSIVE PreloadTrees(_)
PreloadTrees(entries) ==
    IF entries = <<>> THEN <<>>
    ELSE LET f == Head(entries)
             sent == IF EndsWith(f.name, DotJson) THEN TreeEvents(f) ELSE <<>>
         IN (IF sent = <<>> THEN <<>>
             ELSE <<[file |-> f.name, event |-> sent[1]]>>)
            \o PreloadTrees(Tail(entries))

\* lines 141-148 (step 3): the events sent
HousingEvents(file) ==
    IF file.state = "json"
    THEN <<[status |-> "housing_catalog_loaded", catalog |-> file]>>
    ELSE <<>>

\* line 161: 7 * 24 * 3600 * 1000
CacheMaxAgeMs == 7 * 24 * 3600 * 1000

\* fetched_at: absent (or falsy), not a date, or a time in milliseconds
NoFetchedAt      == [kind |-> "missing", t |-> 0]
InvalidFetchedAt == [kind |-> "invalid", t |-> 0]
FetchedAt(t)     == [kind |-> "time", t |-> t]
Catalog(fetchedAt) == [state |-> "json", fetched_at |-> fetchedAt]

\* the cached catalog is served whatever its age
CatalogFreshAnyAge(file, clock) ==
    file.state = "json" /\ file.fetched_at.kind # "missing"

\* the cached catalog counts as fresh as soon as it parses
CatalogFreshIfParsed(file, clock) == file.state = "json"

\* lines 156-161: the cached catalog exists, parses and is young enough
CatalogFresh(file, clock) ==
    /\ file.state = "json"
    /\ file.fetched_at.kind = "time"
    /\ clock - file.fetched_at.t < CacheMaxAgeMs

\* lines 162-164 (step 4): the events sent
CatalogEvents(file, clock) ==
    IF CatalogFresh(file, clock)
    THEN <<[status |-> "housing_api_catalog", catalog |-> file]>>
    ELSE <<>>

RECURSIVE EventsOf(_)
EventsOf(trees) ==
    IF trees = <<>> THEN <<>> ELSE <<Head(trees).event>> \o EventsOf(Tail(trees))

\* the to-python command handled right before this handler, if any
PreviousCommand ==
    IF last.handler = "to-python" THEN [cmd |-> last.cmd, io |-> last.io]
    ELSE [cmd |-> <<>>, io |-> "none"]

DidFinishLoad ==
    /\ pc = "idle"
    /\ win = "open"
    /\ loadPending
    /\ loadPending' = FALSE
    /\ LET trees == IF treeCacheDir.exists
                    THEN PreloadTrees(treeCacheDir.entries) ELSE <<>>
           sent == BuildsEvents(files[getBuildsFile]) \o EventsOf(trees)
                   \o HousingEvents(housingFile)
                   \o CatalogEvents(catalogFile, now)
       IN /\ events' = events \o sent
          /\ last' = [NoHandler EXCEPT !.handler = "did-finish-load",
                                       !.before = files[getBuildsFile],
                                       !.sent = sent, !.trees = trees,
                                       !.prevCmd = PreviousCommand.cmd,
                                       !.prevIo = PreviousCommand.io]
    /\ housingCacheStale' =
          IF CatalogFresh(catalogFile, now) THEN FALSE ELSE housingCacheStale
    \* line 175 (step 5): checkForUpdates sends its request
    /\ updatePending' = TRUE
    /\ UNCHANGED <<engineVars, envVars, files, diskVars, pc, step, win, pyProcess,
                   pipeVars, heapVars, engineStdin, seedReturned, budget,
                   runs>>

\* lines 297-313: the answer to checkForUpdates, or its failure
UpdateResponse(answer) ==
    /\ pc = "idle"
    /\ updatePending
    /\ updatePending' = FALSE
    /\ LET sent == IF answer # "error" /\ win = "open"
                   THEN <<[status |-> "update_check",
                           updateAvailable |-> answer = "newer"]>>
                   ELSE <<>>
       IN /\ events' = events \o sent
          /\ last' = [NoHandler EXCEPT !.handler = "update-check",
                                       !.sent = sent]
    /\ UNCHANGED <<engineVars, envVars, files, diskVars, pc, step, win, loadPending,
                   pyProcess, pipeVars, housingCacheStale, heapVars,
                   engineStdin, seedReturned, budget, runs>>

-----------------------------------------------------------------------------
(* The end of a process and the next start *)

\* lines 319-322: app.on('window-all-closed')
WindowAllClosed ==
    /\ pc = "idle"
    /\ win = "open"
    /\ win' = "closed"
    /\ LET wrote == IF pyProcess = "spawned" THEN <<ExitLine>> ELSE <<>>
       IN /\ engineStdin' = engineStdin \o wrote
          /\ last' = [NoHandler EXCEPT !.handler = "window-all-closed",
                                       !.wrote = wrote]
    /\ pc' = IF platform # "darwin" THEN "quit" ELSE pc
    /\ UNCHANGED <<engineVars, envVars, files, diskVars, step, loadPending, updatePending,
                   pyProcess, pipeVars, housingCacheStale, heapVars, events,
                   seedReturned, budget, runs>>

\* the application is started again: the files stay, the process is new
Restart ==
    /\ pc = "quit"
    /\ runs < MaxRuns
    /\ runs' = runs + 1
    /\ pc' = "launch"
    /\ step' = 0
    /\ win' = "none"
    /\ loadPending' = FALSE
    /\ updatePending' = FALSE
    /\ pyProcess' = "none"
    /\ buffer' = <<>>
    /\ ready' = FALSE
    /\ received' = <<>>
    /\ housingCacheStale' = TRUE
    /\ objectPrototype' = NoProps
    /\ stringPrototype' = NoProps
    /\ engineStdin' = <<>>
    /\ events' = <<>>
    /\ seedReturned' = FALSE
    /\ last' = NoHandler
    /\ now' = now + DayMs
    /\ opened' = <<>>
    /\ UNCHANGED <<engineVars, isPackaged, platform, files, diskVars, budget>>

-----------------------------------------------------------------------------
(* The engine's forecasters.  The sources of the repository hold the shell  *)
(* and the README; the forecasters are modelled from their specification,   *)
(* sections 3, 4.2 and 4.3.                                                 *)

shellVars == <<envVars, files, diskVars, procVars, pipeVars, housingCacheStale,
               heapVars, engineStdin, events, last, budget>>

Professions == {"alchemy", "tailoring"}

\* the constant full-recharge duration: 4 days
FullRechargeMs == 4 * DayMs

NoCapsAt == [known |-> FALSE, t |-> 0]
CapsAt(t) == [known |-> TRUE, t |-> t]

NoConcentration ==
    [observed |-> FALSE, current |-> 0, cap |-> 0, observed_at |-> 0,
     caps_at |-> NoCapsAt]

\* section 4.3: forecast(current, cap, observedAt) -> ConcentrationState
ForecastConcentration(current, cap, observedAt) ==
    [observed |-> TRUE, current |-> current, cap |-> cap,
     observed_at |-> observedAt,
     caps_at |-> IF current >= cap THEN NoCapsAt
                 ELSE CapsAt(observedAt
                             + (cap - current) * (FullRechargeMs \div cap))]

\* the projection made before is kept for as long as it is known
RecomputedFromPrior(prior, current, cap, observedAt) ==
    IF prior.observed /\ prior.caps_at.known
    THEN [ForecastConcentration(current, cap, observedAt)
            EXCEPT !.caps_at = prior.caps_at]
    ELSE ForecastConcentration(current, cap, observedAt)

\* section 4.3: the state is recomputed on every fresh snapshot
Recomputed(prior, current, cap, observedAt) ==
    ForecastConcentration(current, cap, observedAt)

\* a fresh snapshot of a profession arrives
FreshSnapshot(p, current, cap, observedAt) ==
    /\ concentration' =
          [concentration EXCEPT ![p] = Recomputed(@, current, cap, observedAt)]
    /\ UNCHANGED <<shellVars, activity, vault>>

Categories == {"raid", "mythicplus", "world"}

\* the categories with an API signal
ApiCategories == {"raid", "mythicplus"}

Weeks == {1, 2}

\* the tier table, external configuration: the tier of each quality
TierTable == <<1, 2>>

Qualities == DOMAIN TierTable

\* the baseline (lowest) tier
BaselineTier == 0

\* the completions that each of the three slots of a category requires
SlotNeeds == <<1, 2, 3>>

Slots == DOMAIN SlotNeeds

NoActivity ==
    [snapshot |-> [w \in Weeks, c \in ApiCategories, q \in Qualities |-> 0],
     ledger |-> [w \in Weeks |-> 0]]

RECURSIVE SumOver(_, _)
SumOver(f, S) ==
    IF S = {} THEN 0
    ELSE LET x == CHOOSE y \in S : TRUE IN f[x] + SumOver(f, S \ {x})

\* the completions of the snapshot, in all weeks
Completions(act) == SumOver(act.snapshot, DOMAIN act.snapshot)

\* the activities of a week and category that reach the quality, both sources
Reaching(act, week, cat, q) ==
    IF cat \in ApiCategories
    THEN SumOver([q2 \in Qualities |-> act.snapshot[week, cat, q2]],
                 {q2 \in Qualities : q2 >= q})
    ELSE IF act.ledger[week] >= q THEN 1 ELSE 0

\* section 4.2: the tier of a slot, boundary completions counting (>=)
SlotTier(act, week, cat, slot) ==
    LET reached == {q \in Qualities :
                      Reaching(act, week, cat, q) >= SlotNeeds[slot]}
    IN IF reached = {} THEN BaselineTier
       ELSE TierTable[CHOOSE q \in reached : \A q2 \in reached : q2 <= q]

NoVault ==
    [computed |-> FALSE, week |-> 0, error |-> FALSE,
     tiers |-> [c \in Categories |-> [s \in Slots |-> BaselineTier]]]

\* a week without any activity has no best completion, which is an error
VaultForecastOfBest(act, week) ==
    IF \A c \in Categories : Reaching(act, week, c, 1) = 0
    THEN [NoVault EXCEPT !.computed = TRUE, !.week = week, !.error = TRUE]
    ELSE [computed |-> TRUE, week |-> week, error |-> FALSE,
          tiers |-> [c \in Categories |->
                       [s \in Slots |-> SlotTier(act, week, c, s)]]]

\* section 4.2: forecast(snapshot, ledgerEntries, weekId) -> VaultForecast
VaultForecast(act, week) ==
    [computed |-> TRUE, week |-> week, error |-> FALSE,
     tiers |-> [c \in Categories |->
                  [s \in Slots |-> SlotTier(act, week, c, s)]]]

\* a completed run or kill of the week is in the fetched snapshot
RecordCompletion(week, cat, q) ==
    /\ Completions(activity) < MaxCompletions
    /\ activity' = [activity EXCEPT !.snapshot[week, cat, q] = @ + 1]
    /\ UNCHANGED <<shellVars, concentration, vault>>

\* a manual ledger entry of the week is saved, replacing the one there
SaveLedgerEntry(week, q) ==
    /\ activity' = [activity EXCEPT !.ledger[week] = q]
    /\ UNCHANGED <<shellVars, concentration, vault>>

\* the forecast of a week is recomputed, in full
RecomputeVault(week) ==
    /\ vault' = VaultForecast(activity, week)
    /\ UNCHANGED <<shellVars, concentration, activity>>

EngineIdle ==
    /\ concentration = [p \in Professions |-> NoConcentration]
    /\ activity = NoActivity
    /\ vault = NoVault

-----------------------------------------------------------------------------
(* The running application: commands arriving from the renderer *)

KeyA == <<"a">>
KeyDoc == <<"_","r">>

\* builds files a running application can find
UserBuilds ==
    { Absent, Malformed,
      Json("other", Obj(KeyDoc :> Str(<<"d">>))),
      Json("pretty2", Obj(KeyA :> Obj(KeyA :> Obj(KeyA :> Str(<<"x">>))))),
      Json("other", Obj(KeyA :> Obj(KeyA :> Str(<<"x">>)))) }

\* a command of the renderer that the engine handles
FetchHousing == SubSeq(FetchHousingLine, 1, Len(FetchHousingLine) - 1)

SaveLine(c, s, t, tail) ==
    SavePrefix \o c \o <<":">> \o s \o <<":">> \o t \o tail

SaveCmds ==
    { SaveLine(c, s, t, tail) :
        c \in {KeyA, ProtoKey}, s \in {KeyA, ProtoKey}, t \in {KeyA, ProtoKey},
        tail \in {<<>>, <<":","x">>, <<":","y">>} }
    \cup { SubSeq(SavePrefix, 1, Len(SavePrefix) - 1), GetCharacters,
           FetchHousing }

Running(packaged, builds) ==
    /\ isPackaged = packaged
    /\ files = [f \in {UserDataBuilds, AssetsBuilds, ResourcesBuilds} |->
                  IF f = (IF packaged THEN UserDataBuilds ELSE AssetsBuilds)
                  THEN builds ELSE Absent]
    /\ platform = "linux"
    /\ treeCacheDir = NoDir
    /\ housingFile = Absent
    /\ catalogFile = Absent
    /\ now = StartTime
    /\ pc = "idle"
    /\ step = 0
    /\ win = "open"
    /\ loadPending = FALSE
    /\ updatePending = FALSE
    /\ pyProcess = "spawned"
    /\ buffer = <<>>
    /\ ready = TRUE
    /\ received = <<>>
    /\ opened = <<>>
    /\ housingCacheStale = TRUE
    /\ objectPrototype = NoProps
    /\ stringPrototype = NoProps
    /\ engineStdin = <<>>
    /\ events = <<>>
    /\ seedReturned = TRUE
    /\ last = NoHandler
    /\ runs = 1
    /\ EngineIdle

InitSave ==
    /\ \E b \in UserBuilds : Running(TRUE, b)
    /\ budget = MaxInputs

NextSave == \E cmd \in SaveCmds : ToPython(cmd)

SpecSave == InitSave /\ [][NextSave]_vars

-----------------------------------------------------------------------------
(* What the claims about SAVE_BUILD_STRING speak of *)

CurrentBuilds == files[getBuildsFile]

SaveWord == SubSeq(SavePrefix, 1, Len(SavePrefix) - 1)

SepPositions(cmd) == {i \in 1..Len(cmd) : cmd[i] = ":"}

\* the position of the n-th separator of the line
NthSep(cmd, n) ==
    CHOOSE i \in SepPositions(cmd) :
        Cardinality({j \in SepPositions(cmd) : j <= i}) = n

\* the text between the n-th separator and the next one
FieldAfter(cmd, n) == SubSeq(cmd, NthSep(cmd, n) + 1, NthSep(cmd, n + 1) - 1)

\* the whole remainder of the line after the n-th separator
RemainderAfter(cmd, n) == SubSeq(cmd, NthSep(cmd, n) + 1, Len(cmd))

\* builds[c][s][t] is str, by own properties, as a reader of the file sees it
HasEntry(file, c, s, t, str) ==
    /\ file.state = "json"
    /\ file.val.kind = "object"
    /\ c \in DOMAIN file.val.props
    /\ file.val.props[c].kind = "object"
    /\ s \in DOMAIN file.val.props[c].props
    /\ file.val.props[c].props[s].kind = "object"
    /\ t \in DOMAIN file.val.props[c].props[s].props
    /\ file.val.props[c].props[s].props[t] = Str(str)

IsSaveLine(cmd) == StartsWith(cmd, SaveWord)

SentWith(status) == {i \in DOMAIN last.sent : last.sent[i].status = status}

(* C1: every SAVE_BUILD_STRING:c:s:t:str line with at least four separators *)
(* whose write succeeds leaves builds[c][s][t] = str in the builds file and *)
(* sends exactly one build_string_saved event carrying c, s and t; from no  *)
(* builds file the file is exactly {c: {s: {t: str}}}.                      *)
C1_SaveStoresEntry ==
    (last.kind = "save" /\ last.io = "ok") =>
        /\ HasEntry(CurrentBuilds, last.parsed.c, last.parsed.s,
                    last.parsed.t, last.parsed.str)
        /\ last.sent = <<BuildStringSaved(last.parsed.c, last.parsed.s,
                                          last.parsed.t)>>
        /\ (last.before = Absent =>
              CurrentBuilds.val =
                Obj(last.parsed.c :> Obj(last.parsed.s :>
                      Obj(last.parsed.t :> Str(last.parsed.str)))))

(* C3: a SAVE_BUILD_STRING line processed twice in a row, no file write     *)
(* failing, leaves the builds file after the second run exactly as the      *)
(* first run left it, text format included.                                 *)
C3_SaveIdempotent ==
    (/\ last.handler = "to-python"
     /\ IsSaveLine(last.cmd)
     /\ last.prevCmd = last.cmd
     /\ last.prevIo \in {"ok", "none"}
     /\ last.io \in {"ok", "none"})
    => CurrentBuilds = last.before

\* the same line was saved twice, and the entry is in the file
C3_Witness ==
    /\ last.kind = "save"
    /\ last.prevCmd = last.cmd
    /\ last.prevIo = "ok"
    /\ last.io = "ok"
    /\ last.before.state = "json"
    /\ HasEntry(CurrentBuilds, last.parsed.c, last.parsed.s, last.parsed.t,
                last.parsed.str)

(* C9: a SAVE_BUILD_STRING line with fewer than four separators leaves the  *)
(* builds file unchanged, writes nothing to the engine and results in an    *)
(* error event.                                                             *)
C9_MalformedSaveReportsError ==
    (/\ last.handler = "to-python"
     /\ IsSaveLine(last.cmd)
     /\ Cardinality(SepPositions(last.cmd)) < 4)
    => /\ CurrentBuilds = last.before
       /\ last.wrote = <<>>
       /\ SentWith("error") # {}

(* C10: every SAVE_BUILD_STRING line handled sends exactly one terminal     *)
(* event, build_string_saved or error, also when reading, parsing or        *)
(* writing the builds file fails; a failed save sends no                    *)
(* build_string_saved.                                                      *)
C10_OneTerminalEvent ==
    (last.handler = "to-python" /\ StartsWith(last.cmd, SavePrefix))
    => /\ Cardinality(SentWith("build_string_saved") \cup SentWith("error")) = 1
       /\ (last.threw => SentWith("build_string_saved") = {})

-----------------------------------------------------------------------------
(* The parsing of a SAVE_BUILD_STRING line: one line, of any shape *)

TailChars == {":", "x"}

RECURSIVE SeqsUpTo(_, _)
SeqsUpTo(S, n) ==
    IF n = 0 THEN {<<>>}
    ELSE LET shorter == SeqsUpTo(S, n - 1)
         IN shorter \cup {Append(q, x) : q \in shorter, x \in S}

ParseCmds ==
    { SaveLine(c, s, t, tail) :
        c \in {<<>>, KeyA}, s \in {<<>>, KeyA}, t \in {<<>>, KeyA},
        tail \in SeqsUpTo(TailChars, MaxTail) }

InitParse ==
    /\ \E b \in {Absent,
                 Json("pretty2", Obj(KeyA :> Obj(KeyA :> Obj(KeyA :> Str(<<"x">>)))))} :
          Running(TRUE, b)
    /\ budget = 1

NextParse == \E cmd \in ParseCmds : ToPython(cmd)

SpecParse == InitParse /\ [][NextParse]_vars

(* C2: the build string is the whole remainder of the line after the fourth *)
(* separator, character for character, whatever separators it holds, and    *)
(* class, spec and type are the first three fields; the value stored under  *)
(* them is that remainder.                                                  *)
C2_StringIsRemainder ==
    (/\ last.handler = "to-python"
     /\ StartsWith(last.cmd, SavePrefix)
     /\ Cardinality(SepPositions(last.cmd)) >= 4)
    => /\ last.kind = "save"
       /\ last.parsed.c = FieldAfter(last.cmd, 1)
       /\ last.parsed.s = FieldAfter(last.cmd, 2)
       /\ last.parsed.t = FieldAfter(last.cmd, 3)
       /\ last.parsed.str = RemainderAfter(last.cmd, 4)
       /\ last.io = "ok"
          => HasEntry(CurrentBuilds, FieldAfter(last.cmd, 1),
                      FieldAfter(last.cmd, 2), FieldAfter(last.cmd, 3),
                      RemainderAfter(last.cmd, 4))

\* a stored string that begins and ends with separators, two of them adjacent
C2_Witness ==
    /\ last.kind = "save"
    /\ last.io = "ok"
    /\ last.parsed.str = <<":", ":", "x", ":">>
    /\ HasEntry(CurrentBuilds, last.parsed.c, last.parsed.s, last.parsed.t,
                <<":", ":", "x", ":">>)

-----------------------------------------------------------------------------
(* The preload: the files a started application can find *)

KeyUnderscore == <<"_">>

\* the bundled talent_builds.json: documentation keys only
SeedBuilds ==
    Json("other", Obj(KeyDoc :> Str(<<"d">>) @@ KeyUnderscore :> EmptyObj))

SavedEntry == Obj(KeyA :> Obj(KeyA :> Str(<<"x">>)))

LoadBuildsFiles ==
    { Absent, Malformed, SeedBuilds,
      Json("pretty2", Obj(KeyA :> SavedEntry)),
      Json("pretty2", Obj(KeyDoc :> Str(<<"d">>) @@ KeyUnderscore :> EmptyObj
                          @@ KeyA :> SavedEntry @@ <<"a", "_">> :> SavedEntry)) }

NamePieces == {<<"a">>, <<"_">>, DotJson}

RECURSIVE Concats(_, _)
Concats(P, n) ==
    IF n = 0 THEN {<<>>}
    ELSE LET shorter == Concats(P, n - 1)
         IN shorter \cup {q \o p : q \in shorter, p \in P}

CacheFileNames == Concats(NamePieces, MaxPieces) \ {<<>>}

CacheContents == {Tree(TRUE, TRUE), Tree(TRUE, FALSE), Malformed}

CacheDirs ==
    {NoDir, Dir(<<>>)}
    \cup {Dir(<<CacheFile(n, c)>>) : n \in CacheFileNames, c \in CacheContents}

\* a directory of two files, each readable or not, whole or not
MixedContents == CacheContents \cup {Tree(FALSE, TRUE), Absent}

MixedDirs ==
    { Dir(<<CacheFile(<<"a", "_", "a">> \o DotJson, c1),
            CacheFile(<<"a", "a", "_", "a">> \o DotJson, c2)>>)
      : c1 \in MixedContents, c2 \in MixedContents }

CatalogAges ==
    {8 * DayMs, CacheMaxAgeMs + 1, CacheMaxAgeMs, CacheMaxAgeMs - 1, DayMs, 0,
     0 - DayMs}

Catalogs ==
    {Absent, Malformed, Catalog(NoFetchedAt), Catalog(InvalidFetchedAt)}
    \cup {Catalog(FetchedAt(StartTime - age)) : age \in CatalogAges}

HousingFiles == {Absent, Malformed, [state |-> "json"]}

\* createWindow has returned and the page is loading
LoadingWith(packaged, builds, dir, housing, catalog, inputs) ==
    /\ isPackaged = packaged
    /\ platform = "linux"
    /\ now = StartTime
    /\ files = [f \in {UserDataBuilds, AssetsBuilds, ResourcesBuilds} |->
                  IF f = (IF packaged THEN UserDataBuilds ELSE AssetsBuilds)
                  THEN builds ELSE Absent]
    /\ treeCacheDir = dir
    /\ housingFile = housing
    /\ catalogFile = catalog
    /\ pc = "idle"
    /\ step = 0
    /\ win = "open"
    /\ loadPending = TRUE
    /\ updatePending = FALSE
    /\ pyProcess = "spawned"
    /\ buffer = <<>>
    /\ ready = FALSE
    /\ received = <<>>
    /\ opened = <<>>
    /\ housingCacheStale = TRUE
    /\ objectPrototype = NoProps
    /\ stringPrototype = NoProps
    /\ engineStdin = <<>>
    /\ events = <<>>
    /\ seedReturned = TRUE
    /\ last = NoHandler
    /\ budget = inputs
    /\ runs = 1
    /\ EngineIdle

\* the same, with no command and no engine output to come
Loading(packaged, builds, dir, housing, catalog) ==
    LoadingWith(packaged, builds, dir, housing, catalog, 0)

InitLoad ==
    \/ \E p \in BOOLEAN, b \in LoadBuildsFiles, h \in HousingFiles,
          c \in Catalogs :
          Loading(p, b, Dir(<<CacheFile(<<"a", "_", "a">> \o DotJson,
                                        Tree(TRUE, TRUE))>>), h, c)
    \/ \E d \in CacheDirs :
          Loading(TRUE, SeedBuilds, d, Absent, Absent)
    \/ \E d \in MixedDirs :
          Loading(TRUE, SeedBuilds, d, [state |-> "json"],
                  Catalog(FetchedAt(StartTime - DayMs)))

UpdateAnswers == {"newer", "same", "error"}

NextLoad ==
    \/ DidFinishLoad
    \/ \E answer \in UpdateAnswers : UpdateResponse(answer)

SpecLoad == InitLoad /\ [][NextLoad]_vars

Served == \E i \in DOMAIN events : events[i].status = "housing_api_catalog"

CatalogAge == now - catalogFile.fetched_at.t

HasTime == catalogFile.state = "json" /\ catalogFile.fetched_at.kind = "time"

(* C5: the cached catalog is sent as housing_api_catalog only when its age  *)
(* is within the 7 days; at 8 days it is not sent and the catalog stays     *)
(* marked stale, at 1 day it is sent and marked fresh, and without a        *)
(* usable fetched_at it is never sent.                                      *)
C5_StaleCatalogNeverServed ==
    /\ Served => (HasTime /\ CatalogAge <= CacheMaxAgeMs)
    /\ (~loadPending /\ HasTime /\ CatalogAge >= 8 * DayMs)
          => (~Served /\ housingCacheStale)
    /\ (~loadPending /\ HasTime /\ CatalogAge = DayMs)
          => (Served /\ ~housingCacheStale)
    /\ ~HasTime => ~Served

\* the preload ran on a catalog older than 7 days, and sent other things
C5_Witness ==
    /\ ~loadPending
    /\ HasTime
    /\ CatalogAge > CacheMaxAgeMs
    /\ events # <<>>
    /\ ~Served
    /\ housingCacheStale

LoadedEvents(evs) ==
    {i \in DOMAIN evs : evs[i].status = "talent_builds_loaded"}

(* C6: the builds of a talent_builds_loaded event hold no key that begins   *)
(* with an underscore, and every other class entry of the builds file is    *)
(* in them unchanged.                                                       *)
C6_NoUnderscoreKeysLoaded ==
    /\ \A i \in LoadedEvents(events) :
          \A k \in DOMAIN events[i].builds.props : ~StartsWithUnderscore(k)
    /\ (last.handler = "did-finish-load" /\ last.before.state = "json")
       => /\ LoadedEvents(last.sent) = {1}
          /\ \A k \in DOMAIN last.before.val.props :
                ~StartsWithUnderscore(k)
                => /\ k \in DOMAIN last.sent[1].builds.props
                   /\ last.sent[1].builds.props[k] = last.before.val.props[k]

\* a file with documentation keys and classes was loaded
C6_Witness ==
    /\ last.handler = "did-finish-load"
    /\ last.before.state = "json"
    /\ {KeyDoc, KeyUnderscore, KeyA} \subseteq DOMAIN last.before.val.props
    /\ LoadedEvents(last.sent) = {1}
    /\ DOMAIN last.sent[1].builds.props = {KeyA, <<"a", "_">>}

\* the name of a cache file without its .json extension
BaseName(file) == Substring(file, 0, Len(file) - Len(DotJson))

(* C7: for every cache file {base}.json whose base has an underscore with   *)
(* something before its last underscore, the talent_tree event sent for it  *)
(* has class_slug equal to all of base before the last underscore and       *)
(* spec_slug equal to all after it, so class_slug + '_' + spec_slug = base. *)
C7_SplitAtLastUnderscore ==
    \A i \in DOMAIN last.trees :
        LET base == BaseName(last.trees[i].file)
            e == last.trees[i].event
            p == LastIndexOf(base, "_")
        IN p > 0
           => /\ e.class_slug = Substring(base, 0, p)
              /\ e.spec_slug = Substring(base, p + 1, Len(base))
              /\ e.class_slug \o <<"_">> \o e.spec_slug = base
              /\ e.class_slug # <<>>

-----------------------------------------------------------------------------
(* The life of the application: launch, createWindow, the handlers, the end *)
(* of the process and the next launch over the same files.                  *)

LifeCmds == {SaveLine(KeyA, KeyA, KeyA, <<":", "x">>), GetCharacters}

LifeChunks == {ReadyLine \o <<"\n">>, <<"x", "\n">>}

Platforms == {"linux", "darwin"}

\* the builds files found at the first launch: userData, assets, resources
LifeFiles ==
    { [f \in {UserDataBuilds, AssetsBuilds, ResourcesBuilds} |->
         IF f = UserDataBuilds THEN u
         ELSE IF f = ResourcesBuilds THEN r ELSE SeedBuilds]
      : u \in {Absent, Json("pretty2", Obj(KeyA :> SavedEntry))},
        r \in {Absent, SeedBuilds} }

InitLife ==
    /\ isPackaged \in BOOLEAN
    /\ platform \in Platforms
    /\ now = StartTime
    /\ files \in LifeFiles
    /\ treeCacheDir = NoDir
    /\ housingFile = Absent
    /\ catalogFile = Absent
    /\ pc = "launch"
    /\ step = 0
    /\ win = "none"
    /\ loadPending = FALSE
    /\ updatePending = FALSE
    /\ pyProcess = "none"
    /\ buffer = <<>>
    /\ ready = FALSE
    /\ received = <<>>
    /\ opened = <<>>
    /\ housingCacheStale = TRUE
    /\ objectPrototype = NoProps
    /\ stringPrototype = NoProps
    /\ engineStdin = <<>>
    /\ events = <<>>
    /\ seedReturned = FALSE
    /\ last = NoHandler
    /\ budget = MaxInputs
    /\ runs = 1
    /\ EngineIdle

NextLife ==
    \/ WhenReady
    \/ OpenWindow
    \/ SeedDataFiles
    \/ StartPython
    \/ ListenLoad
    \/ DidFinishLoad
    \/ \E answer \in UpdateAnswers : UpdateResponse(answer)
    \/ \E cmd \in LifeCmds : ToPython(cmd)
    \/ \E chunk \in LifeChunks : StdoutData(chunk)
    \/ WindowAllClosed
    \/ Restart

SpecLife == InitLife /\ [][NextLife]_vars

(* C4: seedDataFiles leaves a userData talent_builds.json that exists       *)
(* exactly as it was, whatever the bundled file holds; the only change it   *)
(* makes is to create the missing file, in a packaged run, as a copy of the *)
(* bundled one.                                                             *)
C4_SeedingNeverOverwrites ==
    last.handler = "seedDataFiles"
    => /\ last.before # Absent => files[UserDataBuilds] = last.before
       /\ files[UserDataBuilds] # last.before
             => /\ isPackaged
                /\ last.before = Absent
                /\ files[ResourcesBuilds] # Absent
                /\ files[UserDataBuilds] = files[ResourcesBuilds]

\* a later launch seeds over a file that an earlier run has saved into
C4_Witness ==
    /\ last.handler = "seedDataFiles"
    /\ runs >= 2
    /\ isPackaged
    /\ files[ResourcesBuilds] = SeedBuilds
    /\ last.before # Absent
    /\ last.before # SeedBuilds
    /\ HasEntry(files[UserDataBuilds], KeyA, KeyA, KeyA, <<"x">>)
    /\ KeyDoc \in DOMAIN files[UserDataBuilds].val.props

(* C8: the engine is spawned, a line is written to its stdin, and a         *)
(* to-python command is handled, only after seedDataFiles has returned in   *)
(* this run.                                                                *)
C8_SeedingBeforeEngine ==
    /\ pyProcess = "spawned" => seedReturned
    /\ engineStdin # <<>> => seedReturned
    /\ last.handler = "to-python" => seedReturned

\* a save of the first run has read the file that seeding created
C8_Witness ==
    /\ runs = 1
    /\ isPackaged
    /\ seedReturned
    /\ pyProcess = "spawned"
    /\ engineStdin # <<>>
    /\ last.handler = "to-python"
    /\ last.kind = "save"
    /\ last.before = SeedBuilds

-----------------------------------------------------------------------------
(* The preload of a directory with files that cannot be used *)

\* the file cannot be read, cannot be parsed, or lacks one of its node lists
Unusable(f) ==
    \/ f.content.state # "json"
    \/ ~f.content.class_nodes
    \/ ~f.content.spec_nodes

\* what the preload sends for the file when it is alone in the directory
SentAlone(f) == PreloadTrees(<<f>>)

SentFor(name) == {j \in DOMAIN last.trees : last.trees[j].file = name}

(* C11: a cache file that is missing, unreadable, malformed or without      *)
(* class_nodes or spec_nodes gets no talent_tree event and no error is sent *)
(* to the renderer; every other file of the directory is sent as it is sent *)
(* without the failing one, and steps 3, 4 and 5 of the preload still run.  *)
C11_CacheReadFailureIsMiss ==
    (last.handler = "did-finish-load" /\ treeCacheDir.exists)
    => /\ \A i \in DOMAIN treeCacheDir.entries :
             LET f == treeCacheDir.entries[i]
             IN /\ Unusable(f) => SentFor(f.name) = {}
                /\ SentAlone(f) # <<>>
                      => \E j \in SentFor(f.name) :
                            last.trees[j] = SentAlone(f)[1]
       /\ \A k \in DOMAIN last.sent : last.sent[k].status # "error"
       /\ housingFile.state = "json"
             => \E k \in DOMAIN last.sent :
                   last.sent[k].status = "housing_catalog_loaded"
       /\ (HasTime /\ CatalogAge = DayMs) => Served
       /\ updatePending

\* a malformed file came first, and the tree after it was sent all the same
C11_Witness ==
    /\ last.handler = "did-finish-load"
    /\ treeCacheDir.exists
    /\ Len(treeCacheDir.entries) = 2
    /\ treeCacheDir.entries[1].content = Malformed
    /\ treeCacheDir.entries[2].content = Tree(TRUE, TRUE)
    /\ Len(last.trees) = 1
    /\ last.trees[1].file = treeCacheDir.entries[2].name
    /\ last.trees[1].event.class_slug = <<"a", "a">>
    /\ Served

-----------------------------------------------------------------------------
(* The start of the engine: its output and the page's load, in any order *)

\* createWindow has returned; the page is loading and the engine starting
StartedWith(pf, catalog, inputs) ==
    /\ isPackaged = TRUE
    /\ platform = pf
    /\ now = StartTime
    /\ files = [f \in {UserDataBuilds, AssetsBuilds, ResourcesBuilds} |->
                  SeedBuilds]
    /\ treeCacheDir = NoDir
    /\ housingFile = Absent
    /\ catalogFile = catalog
    /\ pc = "idle"
    /\ step = 0
    /\ win = "open"
    /\ loadPending = TRUE
    /\ updatePending = FALSE
    /\ pyProcess = "spawned"
    /\ buffer = <<>>
    /\ ready = FALSE
    /\ received = <<>>
    /\ opened = <<>>
    /\ housingCacheStale = TRUE
    /\ objectPrototype = NoProps
    /\ stringPrototype = NoProps
    /\ engineStdin = <<>>
    /\ events = <<>>
    /\ seedReturned = TRUE
    /\ last = NoHandler
    /\ budget = inputs
    /\ runs = 1
    /\ EngineIdle

Started(pf, catalog) == StartedWith(pf, catalog, MaxInputs)

InitStart == \E pf \in Platforms, c \in Catalogs : Started(pf, c)

NextStart ==
    \/ DidFinishLoad
    \/ \E chunk \in LifeChunks : StdoutData(chunk)
    \/ WindowAllClosed

SpecStart == InitStart /\ [][NextStart]_vars

\* this step is a run of the stdout handler
StdoutStep == budget' = budget - 1 /\ last'.handler = "stdout-data"

\* the lines that the chunk of this step completes
CompletedLines ==
    LET lines == Split(buffer \o last'.cmd, "\n")
    IN {Trim(lines[i]) : i \in 1..(Len(lines) - 1)}

\* the first ready line of the engine arrives while the window is there
ReadyReceived ==
    StdoutStep /\ ~ready /\ win = "open" /\ ReadyLine \in CompletedLines

\* the cached catalog is absent, unparsable, undated or older than 7 days
CatalogUnusable == ~HasTime \/ CatalogAge > CacheMaxAgeMs

(* C12: when decor_catalog.json is absent, unparsable, without fetched_at   *)
(* or older than 7 days, the handler run that receives the engine's ready   *)
(* line writes FETCH_HOUSING_CATALOG to the engine, whether the page's load *)
(* has been handled before or not.                                          *)
C12_UnusableCatalogRefetched ==
    [][(ReadyReceived /\ CatalogUnusable)
       => /\ ready'
          /\ engineStdin' =
                engineStdin \o <<GetCharactersLine, FetchHousingLine>>]_vars

\* a catalog of 8 days was passed over by the load, then the engine was ready
C12_Witness ==
    /\ HasTime
    /\ CatalogAge = 8 * DayMs
    /\ ~loadPending
    /\ events # <<>>
    /\ events[1].status = "talent_builds_loaded"
    /\ last.handler = "stdout-data"
    /\ ready
    /\ last.wrote = <<GetCharactersLine, FetchHousingLine>>
    /\ engineStdin = <<GetCharactersLine, FetchHousingLine>>

\* FETCH_HOUSING_CATALOG has been written to the engine of this run
FetchWritten == \E i \in DOMAIN engineStdin : engineStdin[i] = FetchHousingLine

\* the cached catalog on disk is younger than the 7 days (the age of exactly
\* 7 days is the case of C20)
CatalogWithinWindow == HasTime /\ CatalogAge < CacheMaxAgeMs

(* C21: with a cached catalog on disk at startup whose age is within the 7  *)
(* days, FETCH_HOUSING_CATALOG is never written to the engine, whether the  *)
(* page's load is handled before the engine's ready line or after it.       *)
C21_NoRedundantPrefetch == CatalogWithinWindow => ~FetchWritten

-----------------------------------------------------------------------------
(* The commands forwarded to the engine *)

\* this step is a run of the to-python handler
ToPythonStep == budget' = budget - 1 /\ last'.handler = "to-python"

(* C13: every command received is written to the engine's stdin at once,    *)
(* after all that was written before, once, unmodified and followed by one  *)
(* newline, unless it is a SAVE_BUILD_STRING: command, which is not written *)
(* at all; no line of the engine's stdin is a SAVE_BUILD_STRING: command.   *)
C13_ForwardedInArrivalOrder ==
    /\ [](\A i \in DOMAIN engineStdin : ~StartsWith(engineStdin[i], SavePrefix))
    /\ [][ToPythonStep
          => engineStdin' =
                engineStdin
                \o (IF StartsWith(last'.cmd, SavePrefix) THEN <<>>
                    ELSE <<last'.cmd \o <<"\n">> >>)]_vars

\* two different commands were forwarded, in the order of their arrival
C13_Witness ==
    /\ last.handler = "to-python"
    /\ last.prevCmd = FetchHousing
    /\ last.cmd = GetCharacters
    /\ engineStdin = <<FetchHousing \o <<"\n">>, GetCharacters \o <<"\n">> >>

-----------------------------------------------------------------------------
(* After the last window was closed *)

\* EXIT has been written to the engine of this run
Exited == \E i \in DOMAIN engineStdin : engineStdin[i] = ExitLine

-----------------------------------------------------------------------------
(* A save that is cut short *)

(* C15: when the write of a save is cut short at any point, the builds file *)
(* afterwards holds the complete previous content or the complete new       *)
(* content, never a truncated one.                                          *)
C15_SaveWriteAtomic ==
    (last.handler = "to-python" /\ last.kind = "save" /\ last.io # "none")
    => \/ CurrentBuilds = last.before
       \/ /\ CurrentBuilds.state = "json"
          /\ CurrentBuilds.fmt = "pretty2"

-----------------------------------------------------------------------------
(* Saves, the load of the page, and the caches being cleared by their owner *)

\* talent_tree_cache and housing_decor_cache are removed from the data directory
ClearCaches ==
    /\ pc = "idle"
    /\ treeCacheDir # NoDir \/ catalogFile # Absent
    /\ treeCacheDir' = NoDir
    /\ catalogFile' = Absent
    /\ UNCHANGED <<engineVars, envVars, files, housingFile, procVars, pipeVars,
                   housingCacheStale, heapVars, engineStdin, events, last,
                   budget>>

TripCmds ==
    { SaveLine(c, s, KeyA, <<":">> \o str) :
        c \in {KeyA, KeyDoc}, s \in {KeyA, ProtoKey}, str \in {<<"x">>, <<"y">>} }

TripBuilds == {Absent, SeedBuilds, Json("pretty2", Obj(KeyA :> SavedEntry))}

\* createWindow has returned, the page is loading and may send its commands
InitTrip ==
    \E b \in TripBuilds :
        LoadingWith(TRUE, b,
                    Dir(<<CacheFile(<<"a", "_", "a">> \o DotJson,
                                    Tree(TRUE, TRUE))>>),
                    Absent, Catalog(FetchedAt(StartTime - DayMs)), MaxInputs)

NextTrip ==
    \/ \E cmd \in TripCmds : ToPython(cmd)
    \/ DidFinishLoad
    \/ ClearCaches

SpecTrip == InitTrip /\ [][NextTrip]_vars

\* the line is a save that the handler accepts: prefix and four separators
AcceptedSave(cmd) ==
    StartsWith(cmd, SavePrefix) /\ Cardinality(SepPositions(cmd)) >= 4

(* C16: after a SAVE_BUILD_STRING:c:s:t:str that was accepted and written,  *)
(* the next talent_builds_loaded event holds builds[c][s][t] = str, for     *)
(* every class slug that the save accepts.                                  *)
C16_SaveLoadRoundTrip ==
    (/\ last.handler = "did-finish-load"
     /\ AcceptedSave(last.prevCmd)
     /\ last.prevIo = "ok")
    => /\ LoadedEvents(last.sent) = {1}
       /\ HasEntry(Json("pretty2", last.sent[1].builds),
                   FieldAfter(last.prevCmd, 1), FieldAfter(last.prevCmd, 2),
                   FieldAfter(last.prevCmd, 3), RemainderAfter(last.prevCmd, 4))

\* a step that changes a file under one of the two cache directories
CacheWritten == treeCacheDir' # treeCacheDir \/ catalogFile' # catalogFile

\* no handler of the shell has run in this step
NoHandlerRan ==
    UNCHANGED <<files, procVars, pipeVars, housingCacheStale, heapVars,
                engineStdin, events, last, budget>>

\* both cache directories are gone
CachesCleared == treeCacheDir = NoDir /\ catalogFile = Absent

(* C17: no handler of the shell changes a file of talent_tree_cache or      *)
(* housing_decor_cache; a save changes no file but the talent_builds.json   *)
(* of the data directory; and a load after both cache directories were      *)
(* cleared still delivers every class entry of the builds file unchanged.   *)
C17_CachesOnlyRead ==
    /\ [][CacheWritten => NoHandlerRan]_vars
    /\ [][ToPythonStep
          => /\ UNCHANGED diskVars
             /\ \A f \in DOMAIN files :
                   f # getBuildsFile => files'[f] = files[f]]_vars
    /\ []((last.handler = "did-finish-load" /\ CachesCleared
           /\ last.before.state = "json")
          => /\ LoadedEvents(last.sent) = {1}
             /\ \A k \in DOMAIN last.before.val.props :
                   ~StartsWithUnderscore(k)
                   => /\ k \in DOMAIN last.sent[1].builds.props
                      /\ last.sent[1].builds.props[k]
                            = last.before.val.props[k])

\* a string was saved, the caches were cleared, and the load delivered it
C17_Witness ==
    /\ last.handler = "did-finish-load"
    /\ CachesCleared
    /\ AcceptedSave(last.prevCmd)
    /\ last.prevIo = "ok"
    /\ LoadedEvents(last.sent) = {1}
    /\ HasEntry(Json("pretty2", last.sent[1].builds), KeyA, KeyA, KeyA, <<"y">>)

-----------------------------------------------------------------------------
(* The forecasts of the engine *)

\* caps for which the regeneration per point is a whole number of milliseconds
Caps == {c \in 1..MaxResource : FullRechargeMs % c = 0}

ObservationTimes == {StartTime, StartTime + 1, StartTime + DayMs}

InitConcentration == Running(TRUE, Absent) /\ budget = 0

NextConcentration ==
    \E p \in Professions, current \in 0..(MaxResource + 1), cap \in Caps,
       at \in ObservationTimes :
        FreshSnapshot(p, current, cap, at)

SpecConcentration == InitConcentration /\ [][NextConcentration]_vars

(* C18: for every observed state, caps_at is absent when current >= cap,    *)
(* and otherwise caps_at = observed_at + (cap - current) * (4 days / cap),  *)
(* for the value and time of the latest observation, whatever was forecast  *)
(* before.                                                                  *)
C18_ConcentrationForecast ==
    \A p \in Professions :
        LET s == concentration[p]
        IN s.observed
           => /\ s.current >= s.cap => ~s.caps_at.known
              /\ s.current < s.cap
                    => /\ s.caps_at.known
                       /\ s.cap * (s.caps_at.t - s.observed_at)
                             = (s.cap - s.current) * FullRechargeMs

\* half of the resource is there: the cap is reached two days later
C18_Witness ==
    LET s == concentration["alchemy"]
    IN /\ s.observed
       /\ s.current = 1
       /\ s.cap = 2
       /\ s.observed_at = StartTime + DayMs
       /\ s.caps_at = CapsAt(StartTime + 3 * DayMs)
       /\ concentration["tailoring"].observed
       /\ ~concentration["tailoring"].caps_at.known

InitVault == Running(TRUE, Absent) /\ budget = 0

NextVault ==
    \/ \E w \in Weeks, c \in ApiCategories, q \in Qualities :
          RecordCompletion(w, c, q)
    \/ \E w \in Weeks, q \in Qualities : SaveLedgerEntry(w, q)
    \/ \E w \in Weeks : RecomputeVault(w)

SpecVault == InitVault /\ [][NextVault]_vars

\* the week has no completion in the snapshot and no ledger entry
ZeroActivity(week) ==
    /\ \A c \in ApiCategories, q \in Qualities : activity.snapshot[week, c, q] = 0
    /\ activity.ledger[week] = 0

(* C19: the forecast of a week with no snapshot activity and no ledger      *)
(* entry is not an error and has the baseline tier in every slot of every   *)
(* category; recomputing it, the activity unchanged, changes nothing.       *)
C19_VaultBaseline ==
    /\ []((vault.computed /\ ZeroActivity(vault.week))
          => /\ ~vault.error
             /\ \A c \in Categories, s \in Slots :
                   vault.tiers[c][s] = BaselineTier)
    /\ [][(/\ vault.computed
           /\ ZeroActivity(vault.week)
           /\ vault'.week = vault.week
           /\ activity' = activity)
          => vault' = vault]_vars

\* the other week has activity, the forecast week has none
C19_Witness ==
    /\ vault.computed
    /\ vault.week = 2
    /\ ZeroActivity(2)
    /\ ~ZeroActivity(1)
    /\ activity.ledger[1] = 2
    /\ \A c \in Categories, s \in Slots : vault.tiers[c][s] = BaselineTier

-----------------------------------------------------------------------------
(* The boundary of the catalog's validity *)

(* C20: a cached catalog whose age is exactly 7 days is still served: the   *)
(* load sends housing_api_catalog for it and the catalog is not marked for  *)
(* a refetch.                                                               *)
C20_SevenDaysStillFresh ==
    (~loadPending /\ HasTime /\ CatalogAge = CacheMaxAgeMs)
    => (Served /\ ~housingCacheStale)

-----------------------------------------------------------------------------
(* The framing of the engine's output into lines, for every chunking *)

FrameAlphabet == {"x", " ", "\n"}

\* the chunks of at most n characters
FrameChunks(n) == SeqsUpTo(FrameAlphabet, n) \ {<<>>}

InitFrame == \E pf \in Platforms : StartedWith(pf, Absent, MaxStream)

NextFrame ==
    \/ \E chunk \in FrameChunks(MaxStream - Len(received)) : StdoutData(chunk)
    \/ WindowAllClosed

SpecFrame == InitFrame /\ [][NextFrame]_vars

NewlinesOf(s) == {i \in 1..Len(s) : s[i] = "\n"}

\* the position of the k-th newline of a stream
NthNewline(s, k) ==
    CHOOSE i \in NewlinesOf(s) :
        Cardinality({j \in NewlinesOf(s) : j <= i}) = k

\* the newline-terminated lines of a stream, in order, without their newline
TerminatedLines(s) ==
    [k \in 1..Cardinality(NewlinesOf(s)) |->
        SubSeq(s, (IF k = 1 THEN 1 ELSE NthNewline(s, k - 1) + 1),
               NthNewline(s, k) - 1)]

\* what follows the last newline of a stream
TrailingFragment(s) ==
    IF NewlinesOf(s) = {} THEN s
    ELSE SubSeq(s, (CHOOSE i \in NewlinesOf(s) :
                       \A j \in NewlinesOf(s) : j <= i) + 1, Len(s))

\* a line without the whitespace at its two ends
Stripped(line) ==
    LET inked == {i \in 1..Len(line) : line[i] \notin Whitespace}
    IN IF inked = {} THEN <<>>
       ELSE SubSeq(line, CHOOSE i \in inked : \A j \in inked : i <= j,
                         CHOOSE i \in inked : \A j \in inked : i >= j)

IsEngineEvent(e) == e.status = "engine"

HasText(e) == e.line # <<>>

\* the events that a stream calls for, however it is cut into chunks
FramedLines(s) ==
    LET ls == TerminatedLines(s)
    IN SelectSeq([i \in 1..Len(ls) |-> EngineLine(Stripped(ls[i]))], HasText)

(* C22: however the engine's output is cut into chunks, the lines sent to   *)
(* the renderer are the newline-terminated lines of the whole output that   *)
(* are not empty after trimming, each once, in order and trimmed, and the   *)
(* text after the last newline is held in the buffer until its newline      *)
(* arrives.                                                                 *)
C22_FramingIndependentOfChunks ==
    /\ buffer = TrailingFragment(received)
    /\ win = "open" => SelectSeq(events, IsEngineEvent) = FramedLines(received)

\* a line cut in two, a blank line dropped, two lines completed by one chunk
C22_Witness ==
    /\ win = "open"
    /\ received = <<"x", " ", "\n", "\n", "x", "\n">>
    /\ last.cmd = <<" ", "\n", "\n", "x", "\n">>
    /\ events = <<EngineLine(<<"x">>), EngineLine(<<"x">>)>>
    /\ buffer = <<>>

-----------------------------------------------------------------------------
(* The handshake with the engine: its ready line, among other lines, in     *)
(* pieces or twice, and the renderer's own commands in between              *)

\* the ready line cut in two
ReadyHead == SubSeq(ReadyLine, 1, 10)
ReadyTail == SubSeq(ReadyLine, 11, Len(ReadyLine))

HandshakeChunks ==
    { <<"x", "\n">>,
      ReadyLine \o <<"\n">>,
      ReadyHead,
      ReadyTail \o <<"\n">>,
      ReadyLine \o <<"\n">> \o ReadyLine \o <<"\n">> }

\* the renderer asks for the characters and for the catalog itself
GetCharactersCmd == SubSeq(GetCharactersLine, 1, Len(GetCharactersLine) - 1)

HandshakeCmds == {GetCharactersCmd, FetchHousing}

InitHandshake ==
    \E pf \in Platforms,
       c \in {Absent, Catalog(FetchedAt(StartTime - DayMs))} :
        StartedWith(pf, c, MaxInputs + 1)

NextHandshake ==
    \/ DidFinishLoad
    \/ \E chunk \in HandshakeChunks : StdoutData(chunk)
    \/ \E cmd \in HandshakeCmds : ToPython(cmd)
    \/ WindowAllClosed

SpecHandshake == InitHandshake /\ [][NextHandshake]_vars

Count(seq, x) == Cardinality({i \in DOMAIN seq : seq[i] = x})

\* a complete line with status ready is in the output received so far
ReadyLineReceived == Count(FramedLines(received), EngineLine(ReadyLine)) > 0

(* C23: the stdout handler writes GET_CHARACTERS in the one run that        *)
(* receives the first ready line of the engine process and in no other:     *)
(* not before a ready line was received, not again at a later ready line,   *)
(* and always before the FETCH_HOUSING_CATALOG that it writes itself;       *)
(* other lines received before the ready line are forwarded and the         *)
(* handshake takes place all the same.                                      *)
C23_ReadyHandshake ==
    /\ [](ready => ReadyLineReceived)
    /\ []((win = "open" /\ ReadyLineReceived) => ready)
    /\ [](win = "open"
          => SelectSeq(events, IsEngineEvent) = FramedLines(received))
    /\ [][ready => ready']_vars
    /\ [][StdoutStep
          => /\ Count(last'.wrote, GetCharactersLine)
                   = (IF ~ready /\ ready' THEN 1 ELSE 0)
             /\ last'.wrote # <<>> => last'.wrote[1] = GetCharactersLine
             /\ Count(last'.wrote, FetchHousingLine) <= 1]_vars

\* noise, the ready line, then the ready line twice more in one chunk
C23_Witness ==
    /\ win = "open"
    /\ received = <<"x", "\n">> \o ReadyLine \o <<"\n">>
                  \o ReadyLine \o <<"\n">> \o ReadyLine \o <<"\n">>
    /\ last.handler = "stdout-data"
    /\ last.cmd = ReadyLine \o <<"\n">> \o ReadyLine \o <<"\n">>
    /\ last.wrote = <<>>
    /\ ready
    /\ Count(engineStdin, GetCharactersLine) = 1
    /\ SelectSeq(events, IsEngineEvent)
          = <<EngineLine(<<"x">>), EngineLine(ReadyLine), EngineLine(ReadyLine),
              EngineLine(ReadyLine)>>

-----------------------------------------------------------------------------
(* The order of the preload's events *)

(* C24: every talent_tree event that the preload sends has a                *)
(* talent_builds_loaded event before it, whether the builds file is         *)
(* present, absent or malformed.                                            *)
C24_BuildsDeliveredFirst ==
    \A i \in DOMAIN events :
        events[i].status = "talent_tree"
        => \E j \in 1..(i - 1) : events[j].status = "talent_builds_loaded"

-----------------------------------------------------------------------------
(* Saves under several keys, into a file that holds other entries *)

KeyB == <<"b">>

KeysBuilds ==
    { Absent, SeedBuilds,
      Json("pretty2", Obj(KeyDoc :> Str(<<"d">>) @@ KeyUnderscore :> EmptyObj
                          @@ KeyA :> SavedEntry @@ KeyB :> SavedEntry)) }

KeysCmds ==
    { SaveLine(c, s, KeyA, <<":">> \o str) :
        c \in {KeyA, KeyUnderscore}, s \in {KeyA, KeyB},
        str \in {<<"x">>, <<"y">>} }

InitKeys ==
    /\ \E b \in KeysBuilds : Running(TRUE, b)
    /\ budget = MaxInputs

NextKeys == \E cmd \in KeysCmds : ToPython(cmd)

SpecKeys == InitKeys /\ [][NextKeys]_vars

\* the top-level keys of a builds file, with their values
PropsOf(file) == IF file.state = "json" THEN file.val.props ELSE NoProps

\* the (class, spec, type) entries under the top-level keys
EntriesOf(props) ==
    UNION { UNION { { <<c, s, t>> : t \in DOMAIN props[c].props[s].props }
                    : s \in {s2 \in DOMAIN props[c].props :
                               props[c].props[s2].kind = "object"} }
            : c \in {c2 \in DOMAIN props : props[c2].kind = "object"} }

EntryAt(props, e) == props[e[1]].props[e[2]].props[e[3]]

\* the (class, spec, type) that a save line names
KeyOf(cmd) == <<FieldAfter(cmd, 1), FieldAfter(cmd, 2), FieldAfter(cmd, 3)>>

(* C25: a save that is accepted and written changes no (class, spec, type)  *)
(* entry of the builds file but its own and no top-level key that begins    *)
(* with an underscore; its own entry then holds its string, and the entry   *)
(* of a save before it under another key still holds the string of that     *)
(* save.                                                                    *)
C25_SaveChangesOnlyItsKey ==
    (last.handler = "to-python" /\ AcceptedSave(last.cmd) /\ last.io = "ok")
    => LET before == PropsOf(last.before)
           after == PropsOf(CurrentBuilds)
           key == KeyOf(last.cmd)
       IN /\ EntriesOf(after) \ {key} = EntriesOf(before) \ {key}
          /\ \A e \in EntriesOf(before) \ {key} :
                EntryAt(after, e) = EntryAt(before, e)
          /\ \A k \in DOMAIN before :
                StartsWithUnderscore(k)
                => k \in DOMAIN after /\ after[k] = before[k]
          /\ HasEntry(CurrentBuilds, key[1], key[2], key[3],
                      RemainderAfter(last.cmd, 4))
          /\ (/\ AcceptedSave(last.prevCmd)
              /\ last.prevIo = "ok"
              /\ KeyOf(last.prevCmd) # key)
             => HasEntry(CurrentBuilds, FieldAfter(last.prevCmd, 1),
                         FieldAfter(last.prevCmd, 2),
                         FieldAfter(last.prevCmd, 3),
                         RemainderAfter(last.prevCmd, 4))

-----------------------------------------------------------------------------
(* The links that the renderer asks to open *)

UrlSchemes ==
    { <<"h", "t", "t", "p">>,
      <<"H", "T", "T", "P">>,
      <<"h", "T", "t", "P">>,
      <<"h", "t", "t", "p", "s">>,
      <<"H", "t", "t", "p", "S">>,
      <<"h", "t", "t", "p", "s", "s">>,
      <<"h", "t", "p">>,
      <<" ", "h", "t", "t", "p">>,
      <<"x", "h", "t", "t", "p">>,
      <<"f", "i", "l", "e">>,
      <<"j", "a", "v", "a", "s", "c", "r", "i", "p", "t">>,
      <<>> }

UrlSeparators == { <<":", "/", "/">>, <<":", "/">>, <<":">> }

\* what the renderer can pass: a scheme, a separator and the rest, or nothing
Urls ==
    { scheme \o sep \o <<"a">> : scheme \in UrlSchemes, sep \in UrlSeparators }
    \cup { <<>>, <<"h", "t", "t", "p", ":", "/", "/">> }

InitExternal ==
    /\ \E b \in {Absent, SeedBuilds} : Running(TRUE, b)
    /\ budget = MaxInputs

NextExternal == \E url \in Urls : OpenExternal(url)

SpecExternal == InitExternal /\ [][NextExternal]_vars

\* this step is a run of the open-external handler
OpenExternalStep == budget' = budget - 1 /\ last'.handler = "open-external"

\* the same letter, in either case
SameLetter(a, b) ==
    \/ a = b
    \/ {a, b} \in {{"h", "H"}, {"t", "T"}, {"p", "P"}, {"s", "S"}}

\* the text starts with the prefix, the case of its letters not counting
StartsWithAnyCase(s, prefix) ==
    /\ Len(s) >= Len(prefix)
    /\ \A i \in 1..Len(prefix) : SameLetter(s[i], prefix[i])

IsWebUrl(url) ==
    \/ StartsWithAnyCase(url, <<"h", "t", "t", "p", ":", "/", "/">>)
    \/ StartsWithAnyCase(url, <<"h", "t", "t", "p", "s", ":", "/", "/">>)

(* C26: the open-external handler hands a URL to the system browser if and  *)
(* only if it starts with http:// or https://, in any case of the letters;  *)
(* for any other input nothing is opened, and in both cases nothing else    *)
(* of the state changes.                                                    *)
C26_OnlyWebUrlsOpened ==
    /\ [](\A i \in DOMAIN opened : IsWebUrl(opened[i]))
    /\ [][OpenExternalStep
          => /\ opened' = (IF IsWebUrl(last'.cmd)
                           THEN Append(opened, last'.cmd) ELSE opened)
             /\ UNCHANGED <<engineVars, isPackaged, platform, now, files,
                            diskVars, procVars, pipeVars, housingCacheStale,
                            heapVars, engineStdin, events>>]_vars
    /\ [][opened' # opened => OpenExternalStep]_vars

\* a link was opened, and then a file: URL was not
C26_Witness ==
    /\ opened = << <<"H", "t", "t", "p", "S", ":", "/", "/", "a">> >>
    /\ last.handler = "open-external"
    /\ last.cmd = <<"f", "i", "l", "e", ":", "/", "/", "a">>

====
